---- MODULE Spec2Model ----
(***************************************************************************)
(* A model of clean_m3u.py: the M3U parser (parse_m3u), the link probe     *)
(* (test_url), the cleaning routine (clean_m3u) and the top-level          *)
(* interrupt handler (main).                                               *)
(*                                                                         *)
(* Text is a sequence of tokens.  A token is an indivisible piece of text: *)
(* " " is one whitespace character, "#" the hash sign, "\n" the line       *)
(* terminator, "EXTINF" and "EXTM3U" the marker words, "http:" a URL       *)
(* scheme with its colon, and the remaining tokens are pieces of ordinary  *)
(* text holding none of these.  A line is a token sequence without "\n";   *)
(* a file is a token sequence.                                             *)
(***************************************************************************)
EXTENDS Integers, Sequences, FiniteSets, TLC

VARIABLES
    input_text,       \* the content of the input file
    max_channels,     \* <<>> for None, <<k>> for the integer k
    pc,               \* the position of the run
    header_lines,     \* clean_m3u's header_lines
    entries,          \* clean_m3u's entries
    idx,              \* the loop index of clean_m3u (1-based)
    working_entries,  \* clean_m3u's working_entries
    wpos,             \* how many lines of the output have been written
    out_exists,       \* whether the output path holds a file
    out_file,         \* the content of the file at the output path
    exit_status,      \* the exit status of the process, -1 while it runs
    messages,         \* how many "Interrupted by user." lines were printed
    int_at,           \* the position at which the interrupt arrived
    probe_log,        \* history: the probes made, in order, with their results
    opens,            \* history: how many times the output path was opened
    parsed,           \* the result of parse_m3u on input_text
    reparsed          \* the result of parse_m3u on the serialized result

vars == <<input_text, max_channels, pc, header_lines, entries, idx,
          working_entries, wpos, out_exists, out_file, exit_status, messages,
          int_at, probe_log, opens, parsed, reparsed>>

----------------------------------------------------------------------------
(* Bounds *)

MaxLines == 4
MaxHeaderLines == 1
MaxEntries == 3
MaxCap == 4

----------------------------------------------------------------------------
(* Text *)

NL == "\n"
Whitespace == {" "}

EXTINF == <<"#", "EXTINF">>
EXTM3U == <<"#", "EXTM3U">>
HASH == <<"#">>

\* str.startswith
StartsWith(s, p) == Len(s) >= Len(p) /\ SubSeq(s, 1, Len(p)) = p

RECURSIVE LStrip(_)
LStrip(s) == IF s # <<>> /\ Head(s) \in Whitespace THEN LStrip(Tail(s)) ELSE s

RECURSIVE RStrip(_)
RStrip(s) ==
    IF s # <<>> /\ s[Len(s)] \in Whitespace
    THEN RStrip(SubSeq(s, 1, Len(s) - 1))
    ELSE s

\* str.strip()
Strip(s) == RStrip(LStrip(s))

RECURSIVE RStripNL(_)
\* line.rstrip("\n")
RStripNL(s) ==
    IF s # <<>> /\ s[Len(s)] = NL
    THEN RStripNL(SubSeq(s, 1, Len(s) - 1))
    ELSE s

RECURSIVE FileLines(_, _)
\* Iterating a text file: each line with its terminator, the last one
\* possibly without.
FileLines(text, cur) ==
    IF text = <<>> THEN (IF cur = <<>> THEN <<>> ELSE <<cur>>)
    ELSE IF Head(text) = NL
         THEN <<Append(cur, NL)>> \o FileLines(Tail(text), <<>>)
         ELSE FileLines(Tail(text), Append(cur, Head(text)))

\* lines = [line.rstrip("\n") for line in f]
ReadLines(text) ==
    LET raw == FileLines(text, <<>>)
    IN  [k \in 1..Len(raw) |-> RStripNL(raw[k])]

\* out.write(line + "\n")
WriteLine(out, line) == out \o line \o <<NL>>

RECURSIVE WriteLines(_, _)
WriteLines(out, ls) ==
    IF ls = <<>> THEN out ELSE WriteLines(WriteLine(out, Head(ls)), Tail(ls))

----------------------------------------------------------------------------
(* parse_m3u *)

\* IsHeaderLine without the seen_first_extinf flag (sensitivity of C9_Header).
IsHeaderLineNoFlag(seen_first_extinf, line) == ~StartsWith(line, EXTINF)

\* The test of line 28: the line goes to the header.
IsHeaderLine(seen_first_extinf, line) ==
    ~seen_first_extinf /\ ~StartsWith(line, EXTINF)

\* The test of line 41: the candidate is skipped by the URL search.
IsSkipped(candidate) == candidate = <<>> \/ StartsWith(candidate, HASH)

RECURSIVE FindUrl(_, _)
\* The inner loop of lines 38-45: the index of the line taken as URL, or 0
\* when the search reaches the end of the file.
FindUrl(lines, j) ==
    IF j > Len(lines) THEN 0
    ELSE IF IsSkipped(Strip(lines[j])) THEN FindUrl(lines, j + 1)
    ELSE j

\* MakeEntry with the two lines swapped (sensitivity of C6_RoundTrip).
MakeEntrySwapped(extinf_line, url_line) == <<url_line, extinf_line>>

\* entries.append((extinf_line, url_line))
MakeEntry(extinf_line, url_line) == <<extinf_line, url_line>>

\* i = j + 1
ResumeAfter(j) == j + 1

EmptyParse ==
    [header_lines |-> <<>>, entries |-> <<>>, pairs |-> <<>>, searched |-> {}]

RECURSIVE ParseLoop(_, _, _, _)
\* The loop of lines 24-56.  pairs and searched are history: the line numbers
\* (metadata, URL) each entry was built from, and the metadata lines for which
\* the URL search ran.
ParseLoop(lines, i, seen_first_extinf, acc) ==
    IF i > Len(lines) THEN acc
    ELSE
      LET line == Strip(lines[i]) IN
      IF IsHeaderLine(seen_first_extinf, line)
      THEN ParseLoop(lines, i + 1, seen_first_extinf,
                     [acc EXCEPT !.header_lines = Append(@, lines[i])])
      ELSE IF StartsWith(line, EXTINF)
      THEN LET j == FindUrl(lines, i + 1)
               url_line == IF j = 0 THEN <<>> ELSE lines[j]
           IN  IF url_line # <<>>
               THEN ParseLoop(lines, ResumeAfter(j), TRUE,
                      [acc EXCEPT !.entries = Append(@, MakeEntry(lines[i], url_line)),
                                  !.pairs = Append(@, <<i, j>>),
                                  !.searched = @ \cup {i}])
               ELSE ParseLoop(lines, i + 1, TRUE,
                      [acc EXCEPT !.searched = @ \cup {i}])
      ELSE ParseLoop(lines, i + 1, seen_first_extinf, acc)

parse_m3u(text) == ParseLoop(ReadLines(text), 1, FALSE, EmptyParse)

RECURSIVE EntryLines(_)
\* The two lines of each entry, in order.
EntryLines(es) ==
    IF es = <<>> THEN <<>> ELSE <<Head(es)[1], Head(es)[2]>> \o EntryLines(Tail(es))

\* Header lines, then each entry's metadata line and URL line, one line each.
Serialize(hs, es) == WriteLines(<<>>, hs \o EntryLines(es))

----------------------------------------------------------------------------
(* test_url *)

StatusLo == 200
StatusHi == 300

\* What the network can answer to one request: a response with a status and
\* a first chunk of chunk bytes, or an exception raised by urlopen or read.
NetOutcomes ==
    {[exc |-> "none", status |-> s, chunk |-> c] :
        s \in {StatusLo - 1, StatusLo, StatusHi - 1, StatusHi}, c \in {0, 1}}
    \cup {[exc |-> e, status |-> 0, chunk |-> 0] :
        e \in {"URLError", "HTTPError", "TimeoutError", "Exception"}}

\* urllib.request.Request(url, ...) raises ValueError ("unknown url type")
\* for a URL without a scheme.
HasScheme(url) == \E k \in 1..Len(url) : url[k] = "http:"

Returned(b) == [raised |-> FALSE, value |-> b]
Raised == [raised |-> TRUE, value |-> FALSE]

\* The request is built before the try statement (lines 66-72); the handlers
\* of lines 85-89 cover urlopen and read only.
test_url(url, net) ==
    IF ~HasScheme(url) THEN Raised
    ELSE IF net.exc # "none" THEN Returned(FALSE)
    ELSE IF net.status < StatusLo \/ net.status >= StatusHi THEN Returned(FALSE)
    ELSE IF net.chunk = 0 THEN Returned(FALSE)
    ELSE Returned(TRUE)

----------------------------------------------------------------------------
(* clean_m3u and main *)

\* CapReached testing max_channels for truth instead of against None, so that
\* 0 counts as no cap (sensitivity of C3_CapRespected).
CapReachedTruthy(i, mc) == mc # <<>> /\ mc[1] # 0 /\ i > mc[1]

\* max_channels is not None and idx > max_channels
CapReached(i, mc) == mc # <<>> /\ i > mc[1]

\* Lines 117-118.
EnsureHeaderLines(hs) ==
    IF hs = <<>> \/ ~StartsWith(Strip(hs[1]), EXTM3U)
    THEN <<EXTM3U>> \o hs
    ELSE hs

\* KeepEntry inserting at the front (sensitivity of C4_Survivors).
KeepEntryFront(ws, e) == <<e>> \o ws

\* working_entries.append((extinf, url))
KeepEntry(ws, e) == Append(ws, e)

\* The lines the with block of lines 120-125 writes, in order.
OutputLines(hs, ws) == hs \o EntryLines(ws)

Running == {"start", "loop", "probe", "sleep", "ensure", "open", "write", "report"}

\* Line 93.
ParseInput ==
    /\ pc = "start"
    /\ LET p == parse_m3u(input_text) IN
         /\ parsed' = p
         /\ header_lines' = p.header_lines
         /\ entries' = p.entries
    /\ idx' = 1
    /\ pc' = "loop"
    /\ UNCHANGED <<input_text, max_channels, working_entries, wpos, out_exists,
                   out_file, exit_status, messages, int_at, probe_log, opens,
                   reparsed>>

\* Lines 99-101: the loop ends when the entries are exhausted or at the break.
LoopHead ==
    /\ pc = "loop"
    /\ pc' = IF idx > Len(entries) \/ CapReached(idx, max_channels)
             THEN "ensure" ELSE "probe"
    /\ UNCHANGED <<input_text, max_channels, header_lines, entries, idx,
                   working_entries, wpos, out_exists, out_file, exit_status,
                   messages, int_at, probe_log, opens, parsed, reparsed>>

\* Lines 103-109.  An exception leaving test_url is not caught by main
\* (lines 146-150 catch KeyboardInterrupt only): the process ends with a
\* traceback and status 1.
Probe ==
    /\ pc = "probe"
    /\ \E net \in NetOutcomes :
         LET r == test_url(entries[idx][2], net) IN
           /\ probe_log' = Append(probe_log, [idx |-> idx, raised |-> r.raised, ok |-> r.value])
           /\ IF r.raised
              THEN /\ pc' = "crashed"
                   /\ exit_status' = 1
                   /\ UNCHANGED working_entries
              ELSE /\ pc' = "sleep"
                   /\ working_entries' =
                        IF r.value THEN KeepEntry(working_entries, entries[idx])
                        ELSE working_entries
                   /\ UNCHANGED exit_status
    /\ UNCHANGED <<input_text, max_channels, header_lines, entries, idx, wpos,
                   out_exists, out_file, messages, int_at, opens, parsed,
                   reparsed>>

\* Line 112, and the next iteration of enumerate.
Sleep ==
    /\ pc = "sleep"
    /\ idx' = idx + 1
    /\ pc' = "loop"
    /\ UNCHANGED <<input_text, max_channels, header_lines, entries,
                   working_entries, wpos, out_exists, out_file, exit_status,
                   messages, int_at, probe_log, opens, parsed, reparsed>>

\* Lines 114-118.
EnsureHeader ==
    /\ pc = "ensure"
    /\ header_lines' = EnsureHeaderLines(header_lines)
    /\ pc' = "open"
    /\ UNCHANGED <<input_text, max_channels, entries, idx, working_entries,
                   wpos, out_exists, out_file, exit_status, messages, int_at,
                   probe_log, opens, parsed, reparsed>>

\* Line 120: open(output_path, "w") creates or truncates the file.
OpenOutput ==
    /\ pc = "open"
    /\ out_exists' = TRUE
    /\ out_file' = <<>>
    /\ opens' = opens + 1
    /\ wpos' = 0
    /\ pc' = "write"
    /\ UNCHANGED <<input_text, max_channels, header_lines, entries, idx,
                   working_entries, exit_status, messages, int_at, probe_log,
                   parsed, reparsed>>

\* Lines 121-125: one out.write per line.
WriteStep ==
    /\ pc = "write"
    /\ wpos < Len(OutputLines(header_lines, working_entries))
    /\ out_file' = WriteLine(out_file, OutputLines(header_lines, working_entries)[wpos + 1])
    /\ wpos' = wpos + 1
    /\ UNCHANGED <<input_text, max_channels, pc, header_lines, entries, idx,
                   working_entries, out_exists, exit_status, messages, int_at,
                   probe_log, opens, parsed, reparsed>>

\* The end of the with block: the file is closed.
CloseOutput ==
    /\ pc = "write"
    /\ wpos = Len(OutputLines(header_lines, working_entries))
    /\ pc' = "report"
    /\ UNCHANGED <<input_text, max_channels, header_lines, entries, idx,
                   working_entries, wpos, out_exists, out_file, exit_status,
                   messages, int_at, probe_log, opens, parsed, reparsed>>

\* Line 127, the return to main and the normal end of the process.
Report ==
    /\ pc = "report"
    /\ pc' = "done"
    /\ exit_status' = 0
    /\ UNCHANGED <<input_text, max_channels, header_lines, entries, idx,
                   working_entries, wpos, out_exists, out_file, messages,
                   int_at, probe_log, opens, parsed, reparsed>>

\* Lines 148-150: KeyboardInterrupt raised anywhere inside clean_m3u.  Leaving
\* the with block closes the file with what was written so far.
Interrupt ==
    /\ pc \in Running
    /\ int_at' = pc
    /\ pc' = "interrupted"
    /\ messages' = messages + 1
    /\ exit_status' = 1
    /\ UNCHANGED <<input_text, max_channels, header_lines, entries, idx,
                   working_entries, wpos, out_exists, out_file, probe_log,
                   opens, parsed, reparsed>>

----------------------------------------------------------------------------
(* Inputs *)

SeqsUpTo(S, n) == UNION {[1..k -> S] : k \in 0..n}

RECURSIVE Join(_)
\* The lines joined by line terminators, the last line without one.
Join(ls) ==
    IF ls = <<>> THEN <<>>
    ELSE IF Len(ls) = 1 THEN Head(ls)
    ELSE Head(ls) \o <<NL>> \o Join(Tail(ls))

\* The lines the parser is tried on.
ParseLineSet ==
    { <<>>,
      <<" ">>,
      <<"#", "EXTM3U">>,
      <<"#", "c">>,
      <<"#", "EXTINF", "a">>,
      <<" ", "#", "EXTINF", "b">>,
      <<"http:", "u">>,
      <<" ", "v", " ">> }

ParseTexts ==
    {WriteLines(<<>>, ls) : ls \in SeqsUpTo(ParseLineSet, MaxLines)}
    \cup {Join(ls) : ls \in SeqsUpTo(ParseLineSet, MaxLines)}

\* The playlists clean_m3u is run on: a header, then entries.
HeaderLineSet ==
    { <<"#", "EXTM3U">>,
      <<" ", "#", "EXTM3U">>,
      <<"#", "EXTM3U", "x">>,
      <<"#", "c">> }

EntrySet ==
    { <<<<"#", "EXTINF", "a">>, <<"http:", "u">>>>,
      <<<<"#", "EXTINF", "b">>, <<"http:", "w">>>>,
      <<<<"#", "EXTINF", "a">>, <<"v">>>> }

CleanTexts ==
    {WriteLines(<<>>, hs \o EntryLines(es)) :
        hs \in SeqsUpTo(HeaderLineSet, MaxHeaderLines),
        es \in SeqsUpTo(EntrySet, MaxEntries)}

Caps == {<<>>} \cup {<<k>> : k \in -1..MaxCap}

----------------------------------------------------------------------------
(* The run of the program *)

InitRest ==
    /\ header_lines = <<>>
    /\ entries = <<>>
    /\ idx = 0
    /\ working_entries = <<>>
    /\ wpos = 0
    /\ out_exists = FALSE
    /\ out_file = <<>>
    /\ exit_status = -1
    /\ messages = 0
    /\ int_at = "none"
    /\ probe_log = <<>>
    /\ opens = 0
    /\ parsed = EmptyParse
    /\ reparsed = EmptyParse

Init ==
    /\ input_text \in CleanTexts
    /\ max_channels \in Caps
    /\ pc = "start"
    /\ InitRest

Next ==
    \/ ParseInput
    \/ LoopHead
    \/ Probe
    \/ Sleep
    \/ EnsureHeader
    \/ OpenOutput
    \/ WriteStep
    \/ CloseOutput
    \/ Report
    \/ Interrupt

Spec == Init /\ [][Next]_vars

----------------------------------------------------------------------------
(* parse_m3u on its own, and on its own serialized result *)

ParseFile ==
    /\ pc = "p_input"
    /\ parsed' = parse_m3u(input_text)
    /\ pc' = "p_parsed"
    /\ UNCHANGED <<input_text, max_channels, header_lines, entries, idx,
                   working_entries, wpos, out_exists, out_file, exit_status,
                   messages, int_at, probe_log, opens, reparsed>>

Reparse ==
    /\ pc = "p_parsed"
    /\ reparsed' = parse_m3u(Serialize(parsed.header_lines, parsed.entries))
    /\ pc' = "p_reparsed"
    /\ UNCHANGED <<input_text, max_channels, header_lines, entries, idx,
                   working_entries, wpos, out_exists, out_file, exit_status,
                   messages, int_at, probe_log, opens, parsed>>

InitParse ==
    /\ input_text \in ParseTexts
    /\ max_channels = <<>>
    /\ pc = "p_input"
    /\ InitRest

NextParse == ParseFile \/ Reparse

SpecParse == InitParse /\ [][NextParse]_vars

----------------------------------------------------------------------------
(* Properties *)

InputLines == ReadLines(input_text)
OutLines == ReadLines(out_file)

IsMarkerLine(l) == StartsWith(Strip(l), EXTINF)
IsUrlLine(l) == Strip(l) # <<>> /\ ~StartsWith(Strip(l), HASH)

Min(a, b) == IF a < b THEN a ELSE b
Max(a, b) == IF a > b THEN a ELSE b

\* How many entries fall within the cap.
WithinCap ==
    IF max_channels = <<>> THEN Len(entries)
    ELSE Min(Len(entries), Max(max_channels[1], 0))

\* The probes that returned true, in the order they were made.
TrueProbes == SelectSeq(probe_log, LAMBDA r : ~r.raised /\ r.ok)

\* The lines of the entries whose probe returned true: for each, the
\* metadata line and then the URL line of the parsed entry.
SurvivorLines ==
    [n \in 1..(2 * Len(TrueProbes)) |->
        entries[TrueProbes[(n + 1) \div 2].idx][IF n % 2 = 1 THEN 1 ELSE 2]]

\* The complete output of the run.
CompleteOutput ==
    WriteLines(<<>>, OutputLines(EnsureHeaderLines(header_lines), working_entries))

\* C1: when clean_m3u completes, the first line of the output file is
\* exactly #EXTM3U, whatever the input's header was.
C1_FirstLineIsMarker ==
    pc \in {"report", "done"} => (OutLines # <<>> /\ OutLines[1] = EXTM3U)

\* C2: no probe raises: every call of test_url returns a boolean, and the
\* run never ends because of an exception leaving test_url.
C2_ProbeNeverRaises ==
    /\ \A m \in 1..Len(probe_log) : ~probe_log[m].raised
    /\ pc # "crashed"

\* C3: with max_channels = k, no entry of index above k is probed (or about
\* to be probed) and none is in the output; with k = 0 no probe is made and
\* the finished output is the header section alone.
C3_CapRespected ==
    max_channels # <<>> =>
      LET k == max_channels[1]
          body == SubSeq(OutLines, Len(header_lines) + 1, Len(OutLines))
      IN  /\ \A m \in 1..Len(probe_log) : probe_log[m].idx <= k
          /\ (pc = "probe" => idx <= k)
          /\ Len(working_entries) <= Max(k, 0)
          /\ Len(body) <= 2 * Max(k, 0)
          /\ \A n \in 1..Len(body) :
                \E i \in 1..Len(entries) :
                    i <= k /\ body[n] = entries[i][IF n % 2 = 1 THEN 1 ELSE 2]
          /\ (k <= 0 => probe_log = <<>>)
          /\ (k <= 0 /\ pc \in {"report", "done"} =>
                OutLines = EnsureHeaderLines(parsed.header_lines))

\* A run capped below the number of entries, which kept what it probed.
C3_Witness ==
    /\ pc = "done"
    /\ max_channels = <<1>>
    /\ Len(entries) >= 2
    /\ Len(probe_log) = 1
    /\ Len(working_entries) = 1

\* C4: the entries kept are exactly the probed entries whose probe returned
\* true, in their original order (probe indices strictly increase), never
\* more than the parsed entries, and the finished output is the header lines
\* followed by the two original lines of each of them.
C4_Survivors ==
    /\ \A m \in 1..Len(probe_log) :
          /\ probe_log[m].idx \in 1..Len(entries)
          /\ m > 1 => probe_log[m - 1].idx < probe_log[m].idx
    /\ Len(working_entries) <= Len(entries)
    /\ working_entries =
          [m \in 1..Len(TrueProbes) |-> entries[TrueProbes[m].idx]]
    /\ (out_exists => \E n \in 0..Len(header_lines \o SurvivorLines) :
                          OutLines = SubSeq(header_lines \o SurvivorLines, 1, n))
    /\ (pc \in {"report", "done"} => OutLines = header_lines \o SurvivorLines)

\* A finished run with a failed probe between two successful ones on
\* different entries.
C4_Witness ==
    /\ pc = "done"
    /\ Len(probe_log) >= 3
    /\ \E m \in 1..Len(probe_log) : ~probe_log[m].ok
    /\ Len(working_entries) = 2
    /\ working_entries[1] # working_entries[2]

\* C5: an interrupt before completion ends the process with one message and
\* status 1 and leaves no incomplete output: the output path holds nothing
\* or the complete result, and nothing at all when the interrupt came during
\* the probing loop; a normal completion ends with status 0.
C5_NoPartialOutput ==
    /\ (pc = "interrupted" =>
          /\ exit_status = 1
          /\ messages = 1
          /\ (~out_exists \/ out_file = CompleteOutput))
    /\ (pc = "interrupted" /\ int_at \in {"loop", "probe", "sleep"} => ~out_exists)
    /\ (pc = "done" => exit_status = 0)

\* C6: parsing the serialized result of a parse gives the same header lines
\* and the same entries.
C6_RoundTrip ==
    pc = "p_reparsed" =>
        /\ reparsed.header_lines = parsed.header_lines
        /\ reparsed.entries = parsed.entries

\* A parse that lost lines of its input and was parsed again.
C6_Witness ==
    /\ pc = "p_reparsed"
    /\ parsed.header_lines # <<>>
    /\ Len(parsed.entries) >= 1
    /\ Len(InputLines) > Len(parsed.header_lines) + 2 * Len(parsed.entries)

\* C7: every entry's URL line is non-blank and no comment, and a metadata
\* line with no URL line before the next marker or the end of the file
\* produces no entry.
C7_NoDanglingEntry ==
    pc \in {"p_parsed", "p_reparsed"} =>
        /\ \A m \in 1..Len(parsed.entries) : IsUrlLine(parsed.entries[m][2])
        /\ \A i \in 1..Len(InputLines) :
              (/\ IsMarkerLine(InputLines[i])
               /\ ~\E j \in (i + 1)..Len(InputLines) :
                      /\ IsUrlLine(InputLines[j])
                      /\ \A n \in (i + 1)..(j - 1) : ~IsMarkerLine(InputLines[n]))
              => ~\E m \in 1..Len(parsed.pairs) : parsed.pairs[m][1] = i

\* C8: of metadata lines that follow one another with no URL line between
\* them, each one runs its own URL search.
C8_EachMarkerSearches ==
    pc \in {"p_parsed", "p_reparsed"} =>
        \A i \in 1..Len(InputLines) : \A k \in (i + 1)..Len(InputLines) :
            (/\ IsMarkerLine(InputLines[i])
             /\ IsMarkerLine(InputLines[k])
             /\ \A n \in (i + 1)..(k - 1) : ~IsUrlLine(InputLines[n]))
            => (i \in parsed.searched /\ k \in parsed.searched)

\* The line number of the first metadata marker, or one past the last line.
FirstMarker ==
    IF \E i \in 1..Len(InputLines) : IsMarkerLine(InputLines[i])
    THEN CHOOSE i \in 1..Len(InputLines) :
            /\ IsMarkerLine(InputLines[i])
            /\ \A n \in 1..(i - 1) : ~IsMarkerLine(InputLines[n])
    ELSE Len(InputLines) + 1

\* C9: the header is exactly the input lines before the first marker line,
\* in order and verbatim; an empty file gives no header and no entries, a
\* file without marker gives every line as header and no entries.
C9_Header ==
    pc \in {"p_parsed", "p_reparsed"} =>
        /\ parsed.header_lines = SubSeq(InputLines, 1, FirstMarker - 1)
        /\ (input_text = <<>> => parsed.header_lines = <<>> /\ parsed.entries = <<>>)
        /\ (FirstMarker = Len(InputLines) + 1 =>
                parsed.header_lines = InputLines /\ parsed.entries = <<>>)

\* A parse whose header keeps a line with surrounding whitespace and whose
\* input has lines after the first marker that belong to no entry.
C9_Witness ==
    /\ pc = "p_parsed"
    /\ \E m \in 1..Len(parsed.header_lines) :
          Strip(parsed.header_lines[m]) # parsed.header_lines[m]
    /\ Len(parsed.entries) >= 1
    /\ Len(InputLines) > Len(parsed.header_lines) + 2 * Len(parsed.entries)

\* C10: without interrupt, the probes are made one at a time in entry order,
\* each entry within the cap exactly once, and the output is opened once,
\* after the last probe; a run that ended has done all of it.
C10_SequentialAndWritten ==
    /\ \A m \in 1..Len(probe_log) : probe_log[m].idx = m
    /\ Len(probe_log) <= WithinCap
    /\ opens <= 1
    /\ (opens = 1 => Len(probe_log) = WithinCap)
    /\ (pc \in {"done", "crashed"} => Len(probe_log) = WithinCap /\ opens = 1)

====
